---- MODULE Spec2Model ----
(***************************************************************************)
(* Model of sweetviz_stock_insights.py: the interactive input loop, the    *)
(* price fetch, the two report renderings and the volatility classifier.   *)
(*                                                                         *)
(* Text is modelled as a sequence of one-character strings.  A price table *)
(* is a sequence of date rows, each a sequence of cells (one per ticker);  *)
(* a cell is <<p>> for a positive integer price p, or NaN (<<>>).          *)
(*                                                                         *)
(* Numbers.  A return (p - q) / q is stored multiplied by ReturnScale, the *)
(* product of the possible prices, which makes it an integer.  A row's     *)
(* standard deviation s is stored as the integer                           *)
(*     VarScale * ReturnScale^2 * s^2,                                     *)
(* its scaled square; since s >= 0 the order of the scores is the order of *)
(* these integers.  The median of the scores is stored as the pair <<a,b>> *)
(* of the two middle scores (a = b when their number is odd), standing for *)
(* (sqrt(a) + sqrt(b)) / 2 in the same unit.                               *)
(***************************************************************************)
EXTENDS Integers, Sequences, FiniteSets, TLC

\* ------------------------------------------------------------------------
\* Bounds and input samples
\* ------------------------------------------------------------------------

\* Largest number of date rows the provider returns.
MaxRows == 4

\* The adjusted-close prices a cell may hold.
PriceValues == {1, 2}

\* A missing value; a present number x is the one-element sequence <<x>>.
NaN == <<>>

Num(x) == <<x>>

Val(cell) == cell[1]

\* Python's None, as the value of df.
None == [none |-> TRUE]

Y2024 == <<"2", "0", "2", "4">>
Y2023 == <<"2", "0", "2", "3">>

\* What the user may type at the ticker prompt.
TickerEntries ==
    { <<>>,
      <<" ">>,
      <<",", " ">>,
      <<"a">>,
      <<"a", ",", "b">>,
      <<" ", "a", ",", " ", ",", "B", " ">> }

\* What the user may type at a date prompt.
DateEntries ==
    { Y2024 \o <<"-", "0", "2", "-", "2", "9">>,
      <<" ">> \o Y2023 \o <<"-", "1", "-", "5", " ">>,
      Y2023 \o <<"-", "0", "2", "-", "2", "9">>,
      Y2024 \o <<"-", "1", "3", "-", "0", "1">>,
      Y2024 \o <<"/", "0", "1", "/", "0", "2">>,
      <<"2", "4", "-", "0", "1", "-", "0", "2">>,
      <<>> }

\* ------------------------------------------------------------------------
\* Text helpers (str.upper, str.strip, str.split, datetime.strptime)
\* ------------------------------------------------------------------------

UpperChar(c) == IF c = "a" THEN "A" ELSE IF c = "b" THEN "B" ELSE c

Upper(s) == [i \in 1..Len(s) |-> UpperChar(s[i])]

IsSpace(c) == c = " "

RECURSIVE LStrip(_)
LStrip(s) == IF s # <<>> /\ IsSpace(Head(s)) THEN LStrip(Tail(s)) ELSE s

RECURSIVE RStrip(_)
RStrip(s) ==
    IF s # <<>> /\ IsSpace(s[Len(s)]) THEN RStrip(SubSeq(s, 1, Len(s) - 1)) ELSE s

Strip(s) == RStrip(LStrip(s))

\* s.split(sep): the fields between the separators, empty fields included.
RECURSIVE Split(_, _)
Split(s, sep) ==
    IF \E i \in 1..Len(s) : s[i] = sep
    THEN LET i == CHOOSE k \in 1..Len(s) :
                      s[k] = sep /\ \A j \in 1..(k - 1) : s[j] # sep
         IN  <<SubSeq(s, 1, i - 1)>> \o Split(SubSeq(s, i + 1, Len(s)), sep)
    ELSE <<s>>

\* [s.strip() for s in stocks if s.strip()]
RECURSIVE StripNonBlank(_)
StripNonBlank(fields) ==
    IF fields = <<>> THEN <<>>
    ELSE IF Strip(Head(fields)) # <<>>
         THEN <<Strip(Head(fields))>> \o StripNonBlank(Tail(fields))
         ELSE StripNonBlank(Tail(fields))

\* input(...).upper().split(",") followed by the filtering comprehension.
ParseTickers(entry) == StripNonBlank(Split(Upper(entry), ","))

Digits == {"0", "1", "2", "3", "4", "5", "6", "7", "8", "9"}

DigitValue(c) ==
    CASE c = "0" -> 0 [] c = "1" -> 1 [] c = "2" -> 2 [] c = "3" -> 3
      [] c = "4" -> 4 [] c = "5" -> 5 [] c = "6" -> 6 [] c = "7" -> 7
      [] c = "8" -> 8 [] c = "9" -> 9

IsNumber(f) == f # <<>> /\ \A i \in 1..Len(f) : f[i] \in Digits

RECURSIVE NumberValue(_)
NumberValue(f) ==
    IF f = <<>> THEN 0
    ELSE 10 * NumberValue(SubSeq(f, 1, Len(f) - 1)) + DigitValue(f[Len(f)])

IsLeap(y) == (y % 4 = 0 /\ y % 100 # 0) \/ y % 400 = 0

DaysInMonth(y, m) ==
    IF m = 2 THEN (IF IsLeap(y) THEN 29 ELSE 28)
    ELSE IF m \in {4, 6, 9, 11} THEN 30 ELSE 31

\* strptime without the check of the day against the month's length.
StrpTimeAnyDay(s) ==
    LET f == Split(s, "-")
    IN  /\ Len(f) = 3
        /\ IsNumber(f[1]) /\ Len(f[1]) = 4
        /\ IsNumber(f[2]) /\ Len(f[2]) \in {1, 2}
        /\ IsNumber(f[3]) /\ Len(f[3]) \in {1, 2}
        /\ NumberValue(f[2]) \in 1..12
        /\ NumberValue(f[3]) \in 1..31

\* datetime.strptime(s, "%Y-%m-%d") returns (TRUE) or raises ValueError (FALSE):
\* a four-digit year, a month 1..12 and a day of that month, each of the last
\* two written with one or two digits, separated by hyphens.
StrpTimeOk(s) ==
    LET f == Split(s, "-")
    IN  /\ Len(f) = 3
        /\ IsNumber(f[1]) /\ Len(f[1]) = 4
        /\ IsNumber(f[2]) /\ Len(f[2]) \in {1, 2}
        /\ IsNumber(f[3]) /\ Len(f[3]) \in {1, 2}
        /\ NumberValue(f[1]) >= 1
        /\ NumberValue(f[2]) \in 1..12
        /\ NumberValue(f[3]) >= 1
        /\ NumberValue(f[3]) <= DaysInMonth(NumberValue(f[1]), NumberValue(f[2]))

\* ------------------------------------------------------------------------
\* Numeric helpers (DataFrame.pct_change, DataFrame.std, Series.median)
\* ------------------------------------------------------------------------

RECURSIVE Product(_)
Product(S) ==
    IF S = {} THEN 1
    ELSE LET x == CHOOSE y \in S : TRUE IN x * Product(S \ {x})

\* Returns are stored multiplied by ReturnScale.
ReturnScale == Product(PriceValues)

\* The largest number of tickers an entry can name, hence of price columns.
MaxTickers ==
    LET lens == {Len(ParseTickers(e)) : e \in TickerEntries}
    IN  CHOOSE n \in lens : \A m \in lens : m <= n

\* Squared scores are stored multiplied by VarScale * ReturnScale^2; VarScale
\* is a multiple of n * (n - 1) for every possible number n of tickers.
VarScale == Product({n * (n - 1) : n \in 2..MaxTickers})

NumRows(prices) == Len(prices)

NumCols(prices) == IF prices = <<>> THEN 0 ELSE Len(prices[1])

\* Forward fill: the last present price of column c at or before row r.
RECURSIVE Pad(_, _, _)
Pad(prices, r, c) ==
    IF r = 0 THEN NaN
    ELSE IF prices[r][c] # NaN THEN prices[r][c] ELSE Pad(prices, r - 1, c)

\* What pct_change divides: the prices as they are (fill_method None, the
\* only behaviour of pandas 3) or forward filled (the default before that).
Filled(prices, r, c, fill_method) ==
    IF fill_method = "pad" THEN Pad(prices, r, c) ELSE prices[r][c]

\* df.pct_change(): same shape as df, first row all NaN, then
\* data / data.shift(1) - 1, in units of 1 / ReturnScale.
PctChange(prices, fill_method) ==
    [r \in 1..NumRows(prices) |->
        [c \in 1..NumCols(prices) |->
            IF r = 1 THEN NaN
            ELSE LET cur == Filled(prices, r, c, fill_method)
                     prev == Filled(prices, r - 1, c, fill_method)
                 IN  IF cur = NaN \/ prev = NaN THEN NaN
                     ELSE Num(((Val(cur) - Val(prev)) * ReturnScale) \div Val(prev))]]

\* The present values of a sequence of cells, in order (skipna=True).
RECURSIVE DropNaN(_)
DropNaN(cells) ==
    IF cells = <<>> THEN <<>>
    ELSE IF Head(cells) = NaN THEN DropNaN(Tail(cells))
         ELSE <<Val(Head(cells))>> \o DropNaN(Tail(cells))

RECURSIVE Sum(_)
Sum(xs) == IF xs = <<>> THEN 0 ELSE Head(xs) + Sum(Tail(xs))

SumSq(xs) == Sum([i \in 1..Len(xs) |-> xs[i] * xs[i]])

\* .std(axis=1) of one row: sample standard deviation (ddof = 1) of the
\* present values, NaN when fewer than two are present.  The result is the
\* scaled square  VarScale * (n * sum(x^2) - sum(x)^2) / (n * (n - 1)).
Std(row) ==
    LET xs == DropNaN(row)
        n == Len(xs)
    IN  IF n < 2 THEN NaN
        ELSE Num((n * SumSq(xs) - Sum(xs) * Sum(xs)) * (VarScale \div (n * (n - 1))))

RECURSIVE Insert(_, _)
Insert(x, sorted) ==
    IF sorted = <<>> THEN <<x>>
    ELSE IF x <= Head(sorted) THEN <<x>> \o sorted
         ELSE <<Head(sorted)>> \o Insert(x, Tail(sorted))

RECURSIVE Sort(_)
Sort(xs) == IF xs = <<>> THEN <<>> ELSE Insert(Head(xs), Sort(Tail(xs)))

\* A median that counts a missing score as 0 instead of skipping it.
MedianNaNAsZero(column) ==
    LET s == Sort([i \in 1..Len(column) |->
                      IF column[i] = NaN THEN 0 ELSE Val(column[i])])
        n == Len(s)
    IN  IF n = 0 THEN NaN
        ELSE IF n % 2 = 1 THEN <<s[(n + 1) \div 2], s[(n + 1) \div 2]>>
             ELSE <<s[n \div 2], s[n \div 2 + 1]>>

\* Series.median(): NaN skipped; NaN when nothing is left; the middle value
\* of the sorted rest, or the mean of the two middle values.
Median(column) ==
    LET s == Sort(DropNaN(column))
        n == Len(s)
    IN  IF n = 0 THEN NaN
        ELSE IF n % 2 = 1 THEN <<s[(n + 1) \div 2], s[(n + 1) \div 2]>>
             ELSE <<s[n \div 2], s[n \div 2 + 1]>>

\* The comparison written >= instead of >.
GreaterOrEqual(score, median) ==
    IF score = NaN \/ median = NaN THEN FALSE
    ELSE LET d == 4 * Val(score) - median[1] - median[2]
         IN  d >= 0 /\ d * d >= 4 * median[1] * median[2]

\* The comparison taken to hold for a missing score.
GreaterOrMissing(score, median) ==
    IF score = NaN THEN TRUE
    ELSE IF median = NaN THEN FALSE
    ELSE LET d == 4 * Val(score) - median[1] - median[2]
         IN  d > 0 /\ d * d > 4 * median[1] * median[2]

\* df['Volatility'] > median_vol for one row; any comparison with NaN is
\* False.  With v, a, b >= 0:  sqrt(v) > (sqrt(a) + sqrt(b)) / 2  iff
\* 4v - a - b > 2 sqrt(ab)  iff  4v - a - b > 0 and (4v - a - b)^2 > 4ab.
Greater(score, median) ==
    IF score = NaN \/ median = NaN THEN FALSE
    ELSE LET d == 4 * Val(score) - median[1] - median[2]
         IN  d > 0 /\ d * d > 4 * median[1] * median[2]

High == "High Volatility"
Low == "Low Volatility"

\* np.where with its two labels exchanged.
ClassifySwapped(volatility, median) ==
    [r \in 1..Len(volatility) |-> IF Greater(volatility[r], median) THEN Low ELSE High]

\* np.where(df['Volatility'] > median_vol, 'High Volatility', 'Low Volatility')
Classify(volatility, median) ==
    [r \in 1..Len(volatility) |-> IF Greater(volatility[r], median) THEN High ELSE Low]

\* df["Volatility_Level"] == "High Volatility"
Partition(level) == [r \in 1..Len(level) |-> level[r] = High]

\* ------------------------------------------------------------------------
\* State
\* ------------------------------------------------------------------------

VARIABLES
    pc,           \* the orchestrator's position in __main__
    stocks,       \* get_user_input's stocks
    start_date,   \* get_user_input's start_date
    end_date,     \* get_user_input's end_date
    entered,      \* what was typed in the loop iteration under way (history)
    df,           \* __main__'s df: None or the data frame
    fetch_result, \* what yf.download did (history)
    fetch_calls,  \* number of calls of fetch_stock_data (history)
    pct,          \* the temporary df.pct_change() of line 104
    median_vol,   \* generate_volatility_comparison's median_vol
    reports,      \* the report files written, in order, with what they show
    steps         \* the steps completed, in order (history)

vars == <<pc, stocks, start_date, end_date, entered, df, fetch_result,
          fetch_calls, pct, median_vol, reports, steps>>

\* A data frame: the price columns and the columns added to it since.
Frame(prices) ==
    [prices |-> prices, columns |-> <<>>, Volatility |-> <<>>, Volatility_Level |-> <<>>]

Cells == {NaN} \cup {Num(p) : p \in PriceValues}

\* The non-empty adjusted-close tables the provider can return for n tickers.
Tables(n) == UNION {[1..r -> [1..n -> Cells]] : r \in 1..MaxRows}

GeneralFile == "sweetviz_report.html"
ComparisonFile == "sweetviz_volatility_report.html"

\* __main__ with the two report calls exchanged.
MainSequenceSwapped ==
    <<"CollectInput", "FetchPrices", "RunClassifierAndRenderComparison",
      "RenderGeneralReport", "Success">>

\* The order of the steps of __main__ on the path without failure.
MainSequence ==
    <<"CollectInput", "FetchPrices", "RenderGeneralReport",
      "RunClassifierAndRenderComparison", "Success">>

StepAfter(step) ==
    LET i == CHOOSE k \in 1..Len(MainSequence) : MainSequence[k] = step
    IN  MainSequence[i + 1]

NotEntered == [tickers |-> <<>>, dates |-> <<>>]

Init ==
    /\ pc = MainSequence[1]
    /\ stocks = <<>>
    /\ start_date = <<>>
    /\ end_date = <<>>
    /\ entered = NotEntered
    /\ df = None
    /\ fetch_result = "not called"
    /\ fetch_calls = 0
    /\ pct = <<>>
    /\ median_vol = NaN
    /\ reports = <<>>
    /\ steps = <<>>

\* ------------------------------------------------------------------------
\* Actions
\* ------------------------------------------------------------------------

\* One iteration of the while loop of get_user_input; the function returns
\* when the iteration reaches break.
GetUserInput ==
    /\ pc = "CollectInput"
    /\ \E t \in TickerEntries :
         /\ stocks' = ParseTickers(t)
         /\ IF stocks' = <<>>
            THEN /\ entered' = [tickers |-> t, dates |-> <<>>]
                 /\ UNCHANGED <<start_date, end_date, pc, steps>>
            ELSE \E s \in DateEntries, e \in DateEntries :
                   /\ entered' = [tickers |-> t, dates |-> <<s, e>>]
                   /\ start_date' = Strip(s)
                   /\ end_date' = Strip(e)
                   /\ IF StrpTimeOk(start_date') /\ StrpTimeOk(end_date')
                      THEN /\ pc' = StepAfter("CollectInput")
                           /\ steps' = Append(steps, "CollectInput")
                      ELSE UNCHANGED <<pc, steps>>
    /\ UNCHANGED <<df, fetch_result, fetch_calls, pct, median_vol, reports>>

\* What yf.download can do.
FetchOutcomes == {"table", "empty", "raise", "no Adj Close"}

\* fetch_stock_data without the test of data.empty.
FetchStockDataNoEmptyTest(outcome, table) ==
    IF outcome \in {"raise", "no Adj Close"} THEN None ELSE Frame(table)

\* fetch_stock_data's return value: None when the download is empty or when
\* the download or the 'Adj Close' lookup raises, else a copy of the table.
FetchStockData(outcome, table) ==
    IF outcome = "empty" THEN None
    ELSE IF outcome \in {"raise", "no Adj Close"} THEN None
         ELSE Frame(table)

\* df = fetch_stock_data(...) and the test of df that follows it.
FetchPrices ==
    /\ pc = "FetchPrices"
    /\ \E outcome \in FetchOutcomes :
         \E table \in (IF outcome = "table" THEN Tables(Len(stocks)) ELSE {<<>>}) :
            /\ fetch_result' = outcome
            /\ df' = FetchStockData(outcome, table)
            /\ pc' = IF df' # None THEN StepAfter("FetchPrices") ELSE "Failed"
    /\ fetch_calls' = fetch_calls + 1
    /\ entered' = NotEntered
    /\ steps' = Append(steps, "FetchPrices")
    /\ UNCHANGED <<stocks, start_date, end_date, pct, median_vol, reports>>

\* generate_sweetviz_report(df, "sweetviz_report.html"); the report library
\* writes the file or raises, and nothing catches what it raises.
RenderGeneralReport ==
    /\ pc = "RenderGeneralReport"
    /\ \E ok \in BOOLEAN :
         IF ok
         THEN /\ reports' = Append(reports,
                    [file |-> GeneralFile, table |-> df, partition |-> <<>>])
              /\ pc' = StepAfter("RenderGeneralReport")
              /\ steps' = Append(steps, "RenderGeneralReport")
         ELSE /\ pc' = "Crashed"
              /\ UNCHANGED <<reports, steps>>
    /\ UNCHANGED <<stocks, start_date, end_date, entered, df, fetch_result,
                   fetch_calls, pct, median_vol>>

\* generate_volatility_comparison(df, "sweetviz_volatility_report.html"):
\* lines 104-106 add two columns to the caller's data frame, then the
\* report library writes the file or raises.
RunClassifierAndRenderComparison ==
    /\ pc = "RunClassifierAndRenderComparison"
    /\ \E fill_method \in {"pad", "none"} :
         pct' = PctChange(df.prices, fill_method)
    /\ LET volatility == [r \in 1..Len(pct') |-> Std(pct'[r])]
       IN  /\ median_vol' = Median(volatility)
           /\ df' = [df EXCEPT !.columns = df.columns \o <<"Volatility", "Volatility_Level">>,
                               !.Volatility = volatility,
                               !.Volatility_Level = Classify(volatility, median_vol')]
    /\ \E ok \in BOOLEAN :
         IF ok
         THEN /\ reports' = Append(reports,
                    [file |-> ComparisonFile, table |-> df',
                     partition |-> Partition(df'.Volatility_Level)])
              /\ pc' = StepAfter("RunClassifierAndRenderComparison")
              /\ steps' = Append(steps, "RunClassifierAndRenderComparison")
         ELSE /\ pc' = "Crashed"
              /\ UNCHANGED <<reports, steps>>
    /\ UNCHANGED <<stocks, start_date, end_date, entered, fetch_result, fetch_calls>>

Next ==
    \/ GetUserInput
    \/ FetchPrices
    \/ RenderGeneralReport
    \/ RunClassifierAndRenderComparison

Spec == Init /\ [][Next]_vars

\* ------------------------------------------------------------------------
\* Vocabulary of the properties
\* ------------------------------------------------------------------------

\* generate_volatility_comparison has executed lines 104-106.
ClassifierCalled == pct # <<>>

Rows == 1..Len(df.Volatility)

DefinedRows == {r \in Rows : df.Volatility[r] # NaN}

HighRows == {r \in 1..Len(df.Volatility_Level) : df.Volatility_Level[r] = High}

LowRows == {r \in 1..Len(df.Volatility_Level) : df.Volatility_Level[r] = Low}

Score(r) == Val(df.Volatility[r])

ComparisonReports == {i \in 1..Len(reports) : reports[i].file = ComparisonFile}

GeneralReports == {i \in 1..Len(reports) : reports[i].file = GeneralFile}

\* No score lies strictly between the two middle scores, so a score exceeds
\* their mean exactly when it exceeds the lower and reaches the upper one.
AboveThreshold(r) ==
    /\ median_vol # NaN
    /\ Score(r) > median_vol[1]
    /\ Score(r) >= median_vol[2]

NoScoreBetweenMiddles ==
    median_vol # NaN =>
        \A r \in DefinedRows : Score(r) <= median_vol[1] \/ Score(r) >= median_vol[2]

\* The dates of DateEntries, stripped, that strptime accepts.
AcceptedDates ==
    { Y2024 \o <<"-", "0", "2", "-", "2", "9">>,
      Y2023 \o <<"-", "1", "-", "5">> }

\* ------------------------------------------------------------------------
\* C1: when the download is empty or the fetch raises (the 'Adj Close'
\* lookup included), the run is in Failed, fetch_stock_data was called once
\* and never again, and no report file has been written.
\* ------------------------------------------------------------------------
FetchFailureAborts ==
    /\ fetch_calls <= 1
    /\ fetch_result \in {"empty", "raise", "no Adj Close"} =>
          /\ pc = "Failed"
          /\ fetch_calls = 1
          /\ reports = <<>>
          /\ df = None

FetchFailureWitness == fetch_result = "empty" /\ pc = "Failed" /\ fetch_calls = 1

\* ------------------------------------------------------------------------
\* C2: the steps complete in the order CollectInput, FetchPrices,
\* RenderGeneralReport, RunClassifierAndRenderComparison, the step under way
\* being the one after the last completed; Success is reached only with the
\* general report written first and the comparison report second; and the
\* general report shows the raw price table, without derived columns.
\* ------------------------------------------------------------------------
StepsInFixedOrder ==
    LET order == <<"CollectInput", "FetchPrices", "RenderGeneralReport",
                   "RunClassifierAndRenderComparison">>
    IN  /\ \E n \in 0..4 : steps = SubSeq(order, 1, n)
        /\ \A n \in 1..4 : pc = order[n] => Len(steps) = n - 1
        /\ pc = "Success" =>
              /\ steps = order
              /\ Len(reports) = 2
              /\ reports[1].file = GeneralFile
              /\ reports[2].file = ComparisonFile
        /\ \A i \in GeneralReports :
              /\ reports[i].table.columns = <<>>
              /\ reports[i].table = Frame(df.prices)

SuccessWitness ==
    /\ pc = "Success"
    /\ Len(reports) = 2
    /\ reports[1].table.columns = <<>>
    /\ reports[2].table.columns # <<>>

\* ------------------------------------------------------------------------
\* C3 (as claimed): when the table that reaches the classifier has fewer
\* than 2 ticker columns or fewer than 2 date rows, the classifier labels
\* nothing and no comparison report is written.
\* ------------------------------------------------------------------------
InsufficientDataRejected ==
    (ClassifierCalled /\ (NumCols(df.prices) < 2 \/ NumRows(df.prices) < 2)) =>
        /\ df.Volatility_Level = <<>>
        /\ ComparisonReports = {}

\* ------------------------------------------------------------------------
\* C4 (as claimed): a row with a defined score is High exactly when its
\* score exceeds the threshold; the High and Low rows are disjoint, their
\* union is the set of rows with a defined score, and the partition vector
\* is true exactly on the High rows.
\* ------------------------------------------------------------------------
LabelsCoverDefinedRowsOnly ==
    ClassifierCalled =>
        /\ NoScoreBetweenMiddles
        /\ \A r \in DefinedRows : (r \in HighRows) <=> AboveThreshold(r)
        /\ HighRows \cap LowRows = {}
        /\ HighRows \cup LowRows = DefinedRows
        /\ \A i \in ComparisonReports :
              reports[i].partition = [r \in Rows |-> r \in HighRows]

\* C4 (amended): as above, but the union of the High and Low rows is the set
\* of all rows: the rows with an undefined score are among the Low rows.
LabelsPartitionAllRows ==
    ClassifierCalled =>
        /\ NoScoreBetweenMiddles
        /\ \A r \in DefinedRows : (r \in HighRows) <=> AboveThreshold(r)
        /\ HighRows \cap LowRows = {}
        /\ HighRows \cup LowRows = Rows
        /\ Rows = 1..NumRows(df.prices)
        /\ \A i \in ComparisonReports :
              reports[i].partition = [r \in Rows |-> r \in HighRows]

\* A High row, and a Low row whose score equals the threshold.
LabelsWitness ==
    /\ ClassifierCalled
    /\ ComparisonReports # {}
    /\ HighRows # {}
    /\ \E r \in DefinedRows \cap LowRows :
          median_vol = <<Score(r), Score(r)>>

CallerTableUnchanged ==
    ClassifierCalled =>
        /\ df.columns = <<>>
        /\ \A i \in GeneralReports : df = reports[i].table

\* ------------------------------------------------------------------------
\* C7: a row's score is undefined exactly when the row has fewer than two
\* defined returns, and the threshold is the median of the defined scores:
\* undefined when there is none, the middle one when their number is odd,
\* the two middle ones (averaged) when it is even.
\* ------------------------------------------------------------------------
ThresholdIsMedianOfDefinedScores ==
    ClassifierCalled =>
        LET d == Cardinality(DefinedRows)
            below(x) == Cardinality({r \in DefinedRows : Score(r) < x})
            above(x) == Cardinality({r \in DefinedRows : Score(r) > x})
            atMost(x) == Cardinality({r \in DefinedRows : Score(r) <= x})
            atLeast(x) == Cardinality({r \in DefinedRows : Score(r) >= x})
        IN  /\ \A r \in Rows :
                  (df.Volatility[r] = NaN) <=> (Len(DropNaN(pct[r])) < 2)
            /\ IF d = 0 THEN median_vol = NaN
               ELSE /\ median_vol # NaN
                    /\ \E r \in DefinedRows : Score(r) = median_vol[1]
                    /\ \E r \in DefinedRows : Score(r) = median_vol[2]
                    /\ IF d % 2 = 1
                       THEN /\ median_vol[1] = median_vol[2]
                            /\ below(median_vol[1]) <= (d - 1) \div 2
                            /\ above(median_vol[1]) <= (d - 1) \div 2
                       ELSE /\ median_vol[1] <= median_vol[2]
                            /\ below(median_vol[1]) <= d \div 2 - 1
                            /\ atMost(median_vol[1]) >= d \div 2
                            /\ above(median_vol[2]) <= d \div 2 - 1
                            /\ atLeast(median_vol[2]) >= d \div 2

\* An even number of defined scores with two different middle values, next
\* to a row after the first whose score is undefined.
ThresholdWitness ==
    /\ ClassifierCalled
    /\ Cardinality(DefinedRows) = 2
    /\ median_vol # NaN
    /\ median_vol[1] < median_vol[2]
    /\ \E r \in Rows \ DefinedRows : r > 1

UndefinedScoreIsLow ==
    ClassifierCalled =>
        /\ \A r \in Rows \ DefinedRows :
              /\ df.Volatility_Level[r] = Low
              /\ \A i \in ComparisonReports : reports[i].partition[r] = FALSE
        /\ 1 \in Rows \ DefinedRows
        /\ df.Volatility_Level[1] = Low

UndefinedScoreWitness ==
    /\ ClassifierCalled
    /\ ComparisonReports # {}
    /\ HighRows # {}
    /\ \E r \in Rows \ DefinedRows : r > 1 /\ df.Volatility_Level[r] = Low

\* ------------------------------------------------------------------------
\* C10: the number of High rows is at most floor(d / 2) for d rows with a
\* defined score; when the defined scores are all equal, or d <= 1, no row
\* is High and the partition vector is all false.
\* ------------------------------------------------------------------------
HighRowsAtMostHalf ==
    ClassifierCalled =>
        LET d == Cardinality(DefinedRows)
        IN  /\ Cardinality(HighRows) <= d \div 2
            /\ (d <= 1 \/ \A q, r \in DefinedRows : Score(q) = Score(r)) =>
                  /\ HighRows = {}
                  /\ \A i \in ComparisonReports :
                        \A r \in Rows : reports[i].partition[r] = FALSE

\* Three defined scores, exactly one of them High.
HighRowsWitness ==
    /\ ClassifierCalled
    /\ ComparisonReports # {}
    /\ Cardinality(DefinedRows) = 3
    /\ Cardinality(HighRows) = 1

\* Two or more defined scores, all equal, and no High row.
EqualScoresWitness ==
    /\ ClassifierCalled
    /\ Cardinality(DefinedRows) >= 2
    /\ \A q, r \in DefinedRows : Score(q) = Score(r)
    /\ HighRows = {}

====
